---- MODULE Spec2Model ----
(***************************************************************************)
(* Gilded Rose inventory (gilded_rose.py): the strategy classes, the       *)
(* ItemUpdaterFactory registry and GildedRose.update_quality (the spec's   *)
(* tick()).  Every trampolined method is modelled by its *_mutmut_orig     *)
(* body, i.e. the program as it runs when MUTANT_UNDER_TEST selects no     *)
(* mutant.  Item objects live in a heap and the inventory list holds       *)
(* references to them, as the Python list does.                            *)
(***************************************************************************)
EXTENDS Integers, Sequences, FiniteSets, TLC

VARIABLES
    heap,           \* object id -> Item record [name, sell_in, quality]
    lists,          \* list object -> its content: object ids, in order
    self_items,     \* GildedRose.items: the list object the attribute names
    strategies,     \* ItemUpdaterFactory._strategies: name -> updater class
    registrations,  \* history: the register_strategy calls made so far
    init_heap,      \* history: the heap at construction
    pre,            \* history: the heap just before the latest update_quality()
    calls,          \* history: the strategy calls made by the latest update_quality()
    ticks,          \* history: number of update_quality() calls so far
    last,           \* history: the latest operation
    raised,         \* the exception the latest update_quality() ended with, or "none"
    init_items,     \* history: the list at construction
    appended,       \* history: the objects the caller appended after construction
    processed,      \* history: every _update_single_item call made so far
    q_in,           \* the argument given to clamp_quality
    q_out           \* the results of clamp_quality applied to q_in, then to its result

vars == <<heap, lists, self_items, strategies, registrations, init_heap, pre, calls,
          ticks, last, raised, init_items, appended, processed, q_in, q_out>>

\* the list object the caller builds and passes to GildedRose(items)
CALLER_LIST == "items"
\* the content of the list GildedRose.items names
items == lists[self_items]

---------------------------------------------------------------------------
(* Bounds *)
MaxLen == 2
MaxTicks == 3
MaxRegs == 1
LongTicks == 50
MaxClamps == 2
MaxClampArg == 120

(* Program constants *)
MINIMUM_QUALITY == 0
MAXIMUM_QUALITY == 50
DAYS_CRITICAL_ZONE == 6
DAYS_URGENT_ZONE == 11

AGED_BRIE == "Aged Brie"
BACKSTAGE == "Backstage passes to a TAFKAL80ETC concert"
SULFURAS == "Sulfuras, Hand of Ragnaros"

---------------------------------------------------------------------------
(* Python builtins max and min *)
Max(a, b) == IF a >= b THEN a ELSE b
Min(a, b) == IF a <= b THEN a ELSE b

(* QualityUpdater *)
\* a clamp that forgets the upper limit
clamp_quality_no_maximum(quality) == Max(MINIMUM_QUALITY, quality)

\* a clamp whose upper limit is one short
clamp_quality_short_maximum(quality) ==
    Max(MINIMUM_QUALITY, Min(quality, MAXIMUM_QUALITY - 1))

\* a clamp that forgets the lower limit
clamp_quality_no_minimum(quality) == Min(quality, MAXIMUM_QUALITY)

clamp_quality(quality) == Max(MINIMUM_QUALITY, Min(quality, MAXIMUM_QUALITY))

\* expiry tested with <= instead of <
is_expired_at_zero(item) == item.sell_in <= 0

is_expired(item) == item.sell_in < 0

\* a decrement that stops at zero
decrease_sell_in_floor_zero(item) == [item EXCEPT !.sell_in = Max(@ - 1, 0)]

decrease_sell_in(item) == [item EXCEPT !.sell_in = @ - 1]

(* NormalItemUpdater *)
\* the daily decay without the clamp
Normal_degrade_before_unclamped(item) == [item EXCEPT !.quality = @ - 1]

Normal_degrade_quality_before_expiration(item) ==
    [item EXCEPT !.quality = clamp_quality(@ - 1)]

\* a past-due penalty of two points
Normal_degrade_additional_by_two(item) ==
    [item EXCEPT !.quality = clamp_quality(@ - 2)]

Normal_degrade_quality_additional_after_expiration(item) ==
    [item EXCEPT !.quality = clamp_quality(@ - 1)]

\* the daily decay applied twice
Normal_update_quality_degrade_twice(item) ==
    Normal_degrade_quality_before_expiration(Normal_degrade_quality_before_expiration(item))

Normal_update_quality(item) == Normal_degrade_quality_before_expiration(item)

\* expiry tested before the decrement
Normal_update_sell_in_check_first(item) ==
    IF is_expired(item)
    THEN Normal_degrade_quality_additional_after_expiration(decrease_sell_in(item))
    ELSE decrease_sell_in(item)

Normal_update_sell_in(item) ==
    LET it == decrease_sell_in(item)
    IN  IF is_expired(it) THEN Normal_degrade_quality_additional_after_expiration(it)
        ELSE it

(* AgedBrieUpdater *)
\* a daily improvement of two points
Brie_improve_before_by_two(item) ==
    [item EXCEPT !.quality = clamp_quality(@ + 2)]

Brie_improve_quality_before_expiration(item) ==
    [item EXCEPT !.quality = clamp_quality(@ + 1)]

\* the past-due improvement without the clamp
Brie_improve_additional_unclamped(item) == [item EXCEPT !.quality = @ + 1]

Brie_improve_quality_additional_after_expiration(item) ==
    [item EXCEPT !.quality = clamp_quality(@ + 1)]

\* the daily improvement without the clamp
Brie_update_quality_unclamped(item) == [item EXCEPT !.quality = @ + 1]

Brie_update_quality(item) == Brie_improve_quality_before_expiration(item)

\* an update that stops the countdown once the quality is at the maximum
Brie_update_sell_in_stop_at_maximum(item) ==
    LET it == IF item.quality >= MAXIMUM_QUALITY THEN item ELSE decrease_sell_in(item)
    IN  IF is_expired(it)
        THEN Brie_improve_quality_additional_after_expiration(it)
        ELSE it

\* the past-due improvement applied twice
Brie_update_sell_in_double_additional(item) ==
    LET it == decrease_sell_in(item)
    IN  IF is_expired(it)
        THEN Brie_improve_quality_additional_after_expiration(
                 Brie_improve_quality_additional_after_expiration(it))
        ELSE it

Brie_update_sell_in(item) ==
    LET it == decrease_sell_in(item)
    IN  IF is_expired(it) THEN Brie_improve_quality_additional_after_expiration(it)
        ELSE it

(* BackstagePassUpdater *)
\* tier boundaries tested with <= instead of <
calculate_quality_increase_inclusive(days_until_concert) ==
    IF days_until_concert <= DAYS_CRITICAL_ZONE THEN 3
    ELSE IF days_until_concert <= DAYS_URGENT_ZONE THEN 2
    ELSE 1

calculate_quality_increase(days_until_concert) ==
    IF days_until_concert < DAYS_CRITICAL_ZONE THEN 3
    ELSE IF days_until_concert < DAYS_URGENT_ZONE THEN 2
    ELSE 1

\* the tier taken from the day after
increase_quality_by_urgency_next_day(item) ==
    LET quality_increase == calculate_quality_increase(item.sell_in - 1)
    IN  [item EXCEPT !.quality = clamp_quality(@ + quality_increase)]

increase_quality_by_urgency(item) ==
    LET quality_increase == calculate_quality_increase(item.sell_in)
    IN  [item EXCEPT !.quality = clamp_quality(@ + quality_increase)]

\* an expired pass that merely loses one point
expire_backstage_pass_decrement(item) ==
    [item EXCEPT !.quality = clamp_quality(@ - 1)]

expire_backstage_pass(item) == [item EXCEPT !.quality = MINIMUM_QUALITY]

\* no bonus once the concert day is reached
Backstage_update_quality_skip_when_due(item) ==
    IF item.sell_in <= 0 THEN item ELSE increase_quality_by_urgency(item)

Backstage_update_quality(item) == increase_quality_by_urgency(item)

\* the reset made only on the day after the concert
Backstage_update_sell_in_only_at_crossing(item) ==
    LET it == decrease_sell_in(item)
    IN  IF it.sell_in = -1 THEN expire_backstage_pass(it) ELSE it

Backstage_update_sell_in(item) ==
    LET it == decrease_sell_in(item)
    IN  IF is_expired(it) THEN expire_backstage_pass(it) ELSE it

(* SulfurasUpdater *)
Sulfuras_update_quality(item) == item

\* a legendary item that ages like the others
Sulfuras_update_sell_in_decrement(item) == decrease_sell_in(item)

Sulfuras_update_sell_in(item) == item

(* Dynamic dispatch on the updater's class *)
update_quality(updater, item) ==
    CASE updater = "NormalItemUpdater" -> Normal_update_quality(item)
      [] updater = "AgedBrieUpdater" -> Brie_update_quality(item)
      [] updater = "BackstagePassUpdater" -> Backstage_update_quality(item)
      [] updater = "SulfurasUpdater" -> Sulfuras_update_quality(item)

update_sell_in(updater, item) ==
    CASE updater = "NormalItemUpdater" -> Normal_update_sell_in(item)
      [] updater = "AgedBrieUpdater" -> Brie_update_sell_in(item)
      [] updater = "BackstagePassUpdater" -> Backstage_update_sell_in(item)
      [] updater = "SulfurasUpdater" -> Sulfuras_update_sell_in(item)

---------------------------------------------------------------------------
(* ItemUpdaterFactory *)
\* the registry keyed by lower-cased names
DefaultStrategies_lowercase ==
    [n \in {"aged brie", BACKSTAGE, SULFURAS} |->
        CASE n = "aged brie" -> "AgedBrieUpdater"
          [] n = BACKSTAGE -> "BackstagePassUpdater"
          [] n = SULFURAS -> "SulfurasUpdater"]

DefaultStrategies ==
    [n \in {AGED_BRIE, BACKSTAGE, SULFURAS} |->
        CASE n = AGED_BRIE -> "AgedBrieUpdater"
          [] n = BACKSTAGE -> "BackstagePassUpdater"
          [] n = SULFURAS -> "SulfurasUpdater"]

\* a lookup whose default is None
get_updater_default_none(strats, item_name) ==
    IF item_name \in DOMAIN strats THEN strats[item_name] ELSE "None"

get_updater(strats, item_name) ==
    IF item_name \in DOMAIN strats THEN strats[item_name] ELSE "NormalItemUpdater"

\* a lookup that stores the default it returns (dict.setdefault)
get_updater_strategies_setdefault(strats, item_name) ==
    IF item_name \in DOMAIN strats THEN strats
    ELSE [n \in (DOMAIN strats) \cup {item_name} |->
            IF n = item_name THEN "NormalItemUpdater" ELSE strats[n]]

\* a lookup that takes the binding out of the registry (dict.pop)
get_updater_strategies_pop(strats, item_name) ==
    [n \in (DOMAIN strats) \ {item_name} |-> strats[n]]

\* self._strategies as get_updater leaves it: dict.get stores nothing
get_updater_strategies(strats, item_name) == strats

\* a registration that keeps the binding a name already has
register_strategy_keep_existing(strats, item_name, updater) ==
    IF item_name \in DOMAIN strats THEN strats
    ELSE [n \in (DOMAIN strats) \cup {item_name} |->
            IF n = item_name THEN updater ELSE strats[n]]

\* a registration that replaces the whole registry
register_strategy_replace_all(strats, item_name, updater) ==
    [n \in {item_name} |-> updater]

register_strategy(strats, item_name, updater) ==
    [n \in (DOMAIN strats) \cup {item_name} |->
        IF n = item_name THEN updater ELSE strats[n]]

---------------------------------------------------------------------------
(* GildedRose *)

\* the two strategy calls made in the opposite order
update_single_item_sell_in_first(strats, item) ==
    LET updater == get_updater(strats, item.name)
        a == update_sell_in(updater, item)
        b == update_quality(updater, a)
    IN  << [op |-> "update_sell_in", updater |-> updater, item |-> a, raised |-> "none"],
           [op |-> "update_quality", updater |-> updater, item |-> b, raised |-> "none"] >>

\* _update_single_item: the two strategy calls, in the order made, each with
\* the item as it is when the call returns.  A method call on None raises
\* AttributeError and ends the function.
update_single_item(strats, item) ==
    LET updater == get_updater(strats, item.name)
        a == update_quality(updater, item)
        b == update_sell_in(updater, a)
    IN  IF updater = "None"
        THEN << [op |-> "update_quality", updater |-> updater, item |-> item,
                 raised |-> "AttributeError"] >>
        ELSE << [op |-> "update_quality", updater |-> updater, item |-> a, raised |-> "none"],
                [op |-> "update_sell_in", updater |-> updater, item |-> b, raised |-> "none"] >>

\* update_quality: the for loop over self.items from position i on, starting
\* with heap h and call log cs.  An exception raised for an entry ends the loop.
RECURSIVE UpdateFrom(_, _, _, _, _)
UpdateFrom(strats, its, h, cs, i) ==
    IF i > Len(its)
    THEN [heap |-> h, calls |-> cs, raised |-> "none", strategies |-> strats]
    ELSE LET id == its[i]
             steps == update_single_item(strats, h[id])
             strats2 == get_updater_strategies(strats, h[id].name)
             logged == [k \in 1..Len(steps) |->
                          [idx |-> i, obj |-> id, op |-> steps[k].op,
                           updater |-> steps[k].updater, item |-> steps[k].item]]
             h2 == [h EXCEPT ![id] = steps[Len(steps)].item]
         IN  IF steps[Len(steps)].raised # "none"
             THEN [heap |-> h2, calls |-> cs \o logged,
                   raised |-> steps[Len(steps)].raised, strategies |-> strats2]
             ELSE UpdateFrom(strats2, its, h2, cs \o logged, i + 1)

\* a loop that first reads self.items[0]
GildedRose_update_quality_first_item(strats, its, h) ==
    IF Len(its) = 0
    THEN [heap |-> h, calls |-> <<>>, raised |-> "IndexError", items |-> its,
          strategies |-> strats]
    ELSE [items |-> its] @@ UpdateFrom(strats, its, h, <<>>, 1)

\* the updater resolved once, for the first entry, and used for all
GildedRose_update_quality_one_updater(strats, its, h) ==
    IF Len(its) = 0
    THEN [heap |-> h, calls |-> <<>>, raised |-> "none", items |-> its,
          strategies |-> strats]
    ELSE LET u == get_updater(strats, h[its[1]].name)
         IN  [items |-> its, strategies |-> strats] @@
             UpdateFrom([n \in {h[id].name : id \in DOMAIN h} |-> u], its, h, <<>>, 1)

\* a loop that removes the entries whose quality reached zero
GildedRose_update_quality_drop_worthless(strats, its, h) ==
    LET r == UpdateFrom(strats, its, h, <<>>, 1)
        keep(id) == r.heap[id].quality > 0
    IN  [items |-> SelectSeq(its, keep)] @@ r

\* a loop over self.items[1:]
GildedRose_update_quality_skip_first(strats, its, h) ==
    [items |-> its] @@ UpdateFrom(strats, its, h, <<>>, 2)

\* a loop that goes over the list twice
GildedRose_update_quality_twice(strats, its, h) ==
    [items |-> its] @@ UpdateFrom(strats, its \o its, h, <<>>, 1)

\* the list without the later occurrences of an object
RECURSIVE Dedup(_)
Dedup(s) ==
    IF s = <<>> THEN <<>>
    ELSE LET r == Dedup(SubSeq(s, 1, Len(s) - 1))
             x == s[Len(s)]
         IN  IF \E k \in DOMAIN r : r[k] = x THEN r ELSE Append(r, x)

\* a loop over the distinct objects of the list
GildedRose_update_quality_dedup(strats, its, h) ==
    [items |-> its] @@ UpdateFrom(strats, Dedup(its), h, <<>>, 1)

\* GildedRose.update_quality: the heap, the list, the registry and the calls
\* it leaves
GildedRose_update_quality(strats, its, h) ==
    [items |-> its] @@ UpdateFrom(strats, its, h, <<>>, 1)

\* the updater object get_updater returns: the one stored under the name (the
\* same object until the name is registered again), or else the
\* NormalItemUpdater() built by this very call
get_updater_instance(strats, regs, item_name, tick, call) ==
    IF item_name \in DOMAIN strats
    THEN [origin |-> "registry", name |-> item_name,
          version |-> Cardinality({k \in DOMAIN regs : regs[k].name = item_name}),
          tick |-> 0, call |-> 0]
    ELSE [origin |-> "default", name |-> item_name, version |-> 0,
          tick |-> tick, call |-> call]

\* the log entries of the _update_single_item call made for list position i
CallsAt(cs, i) == {k \in DOMAIN cs : cs[k].idx = i}

\* the item as the _update_single_item call for list position i found it
ItemBefore(cs, h, i) ==
    LET first == CHOOSE k \in CallsAt(cs, i) : \A j \in CallsAt(cs, i) : k <= j
        earlier == {j \in 1..(first - 1) : cs[j].obj = cs[first].obj}
    IN  IF earlier = {} THEN h[cs[first].obj]
        ELSE cs[CHOOSE j \in earlier : \A m \in earlier : m <= j].item

\* the item as the _update_single_item call for list position i left it
ItemAfter(cs, i) ==
    cs[CHOOSE k \in CallsAt(cs, i) : \A j \in CallsAt(cs, i) : j <= k].item

\* one record per _update_single_item call of the tick: the object, the
\* item before and after, and the updater object that processed it
Processed(cs, h, strats, regs, tick) ==
    { [tick |-> tick, idx |-> i,
       obj |-> cs[CHOOSE k \in CallsAt(cs, i) : TRUE].obj,
       before |-> ItemBefore(cs, h, i),
       after |-> ItemAfter(cs, i),
       instance |-> get_updater_instance(strats, regs, ItemBefore(cs, h, i).name,
                                         tick, i)] :
      i \in {cs[k].idx : k \in DOMAIN cs} }

---------------------------------------------------------------------------
(* Inputs *)
ItemNames == {AGED_BRIE, BACKSTAGE, SULFURAS, "Normal Item", "aged brie", ""}
SellIns == -2 .. 12
Qualities == {-1, 0, 1, 2, 25, 48, 49, 50, 51, 80}
\* the items of a one-item inventory
BroadItems == [name : ItemNames, sell_in : SellIns, quality : Qualities]
\* the items of a longer inventory
NarrowItems ==
    { [name |-> AGED_BRIE, sell_in |-> 0, quality |-> 49],
      [name |-> BACKSTAGE, sell_in |-> 11, quality |-> 49],
      [name |-> BACKSTAGE, sell_in |-> 0, quality |-> 1],
      [name |-> SULFURAS, sell_in |-> 0, quality |-> 80],
      [name |-> "Normal Item", sell_in |-> 0, quality |-> 1],
      [name |-> "Normal Item", sell_in |-> 11, quality |-> 49] }
\* the register_strategy calls tried
RegArgs ==
    { [item_name |-> "Normal Item", updater |-> "AgedBrieUpdater"],
      [item_name |-> "Normal Item", updater |-> "SulfurasUpdater"],
      [item_name |-> SULFURAS, updater |-> "NormalItemUpdater"] }

\* the items of the long runs: one item, every quality of 0..50
LongItems == [name : {"Normal Item", AGED_BRIE, BACKSTAGE},
              sell_in : {-1, 0, 15, 60}, quality : 0..50]

\* Lists of n references, objects numbered by first occurrence (the same
\* object may occur more than once).
MaxOf(s, n) == IF n = 0 THEN 0 ELSE CHOOSE m \in {s[j] : j \in 1..n} : \A j \in 1..n : s[j] <= m
Shapes(n) == {s \in [1..n -> 1..n] : \A i \in 1..n : s[i] <= 1 + MaxOf(s, i - 1)}

\* the items appended by the caller after construction
AppendItems ==
    { [name |-> "Normal Item", sell_in |-> 1, quality |-> 25],
      [name |-> AGED_BRIE, sell_in |-> 0, quality |-> 49],
      [name |-> SULFURAS, sell_in |-> 0, quality |-> 80],
      [name |-> "Normal Item", sell_in |-> 1, quality |-> 48] }
\* the arguments given to clamp_quality
ClampArgs == -MaxClampArg .. MaxClampArg

---------------------------------------------------------------------------
\* a constructor that keeps a copy of the list it is given
GildedRose_init_copy(items_arg) == "list(items)"

\* GildedRose.__init__: self.items = items binds the attribute to the list
\* object passed, so the result is that object
GildedRose_init(items_arg) == items_arg

Init ==
    \E n \in 0..MaxLen :
      \E s \in Shapes(n) :
        \E h \in [1..MaxOf(s, n) -> IF n <= 1 THEN BroadItems ELSE NarrowItems] :
            /\ heap = h
            /\ self_items = GildedRose_init(CALLER_LIST)
            /\ lists = [l \in {CALLER_LIST, GildedRose_init(CALLER_LIST)} |-> s]
            /\ strategies = DefaultStrategies
            /\ registrations = <<>>
            /\ init_heap = h
            /\ pre = h
            /\ calls = <<>>
            /\ ticks = 0
            /\ last = "init"
            /\ raised = "none"
            /\ init_items = s
            /\ appended = {}
            /\ processed = {}
            /\ q_in = 0
            /\ q_out = <<>>

\* GildedRose.update_quality()
TickBody ==
    /\ LET r == GildedRose_update_quality(strategies, items, heap)
       IN  /\ heap' = r.heap
           /\ lists' = [lists EXCEPT ![self_items] = r.items]
           /\ strategies' = r.strategies
           /\ calls' = r.calls
           /\ raised' = r.raised
           /\ processed' = processed \cup
                  Processed(r.calls, heap, strategies, registrations, ticks + 1)
    /\ pre' = heap
    /\ ticks' = ticks + 1
    /\ last' = "tick"
    /\ UNCHANGED <<self_items, registrations, init_heap, init_items, appended,
                    q_in, q_out>>

Tick ==
    /\ ticks < MaxTicks
    /\ TickBody

\* ItemUpdaterFactory.register_strategy(item_name, updater)
Register ==
    /\ Len(registrations) < MaxRegs
    /\ \E a \in RegArgs :
          /\ strategies' = register_strategy(strategies, a.item_name, a.updater)
          /\ registrations' = Append(registrations,
                                     [name |-> a.item_name, updater |-> a.updater,
                                      before |-> strategies])
    /\ last' = "register"
    /\ UNCHANGED <<heap, lists, self_items, init_heap, pre, calls, ticks, raised,
                    init_items, appended, processed, q_in, q_out>>

Next == Tick \/ Register

Spec == Init /\ [][Next]_vars

\* Long runs of update_quality() on a one-item inventory
InitLong ==
    \E it \in LongItems :
        /\ heap = <<it>>
        /\ self_items = GildedRose_init(CALLER_LIST)
        /\ lists = [l \in {CALLER_LIST, GildedRose_init(CALLER_LIST)} |-> <<1>>]
        /\ strategies = DefaultStrategies
        /\ registrations = <<>>
        /\ init_heap = <<it>>
        /\ pre = <<it>>
        /\ calls = <<>>
        /\ ticks = 0
        /\ last = "init"
        /\ raised = "none"
        /\ init_items = <<1>>
        /\ appended = {}
        /\ processed = {}
        /\ q_in = 0
        /\ q_out = <<>>

TickLong ==
    /\ ticks < LongTicks
    /\ TickBody

NextLong == TickLong

SpecLong == InitLong /\ [][NextLong]_vars

\* The caller appends a new Item to the list it passed at construction
AppendItem ==
    /\ Len(lists[CALLER_LIST]) < MaxLen
    /\ \E it \in AppendItems :
          LET id == Len(heap) + 1
          IN  /\ heap' = Append(heap, it)
              /\ init_heap' = Append(init_heap, it)
              /\ lists' = [lists EXCEPT ![CALLER_LIST] = Append(@, id)]
              /\ appended' = appended \cup {id}
    /\ last' = "append"
    /\ UNCHANGED <<self_items, strategies, registrations, pre, calls, ticks, raised,
                    init_items, processed, q_in, q_out>>

NextAppend == Tick \/ AppendItem

SpecAppend == Init /\ [][NextAppend]_vars

\* QualityUpdater.clamp_quality applied to an argument, then to its own result
InitClamp ==
    \E q \in ClampArgs :
        /\ heap = <<>>
        /\ self_items = GildedRose_init(CALLER_LIST)
        /\ lists = [l \in {CALLER_LIST, GildedRose_init(CALLER_LIST)} |-> <<>>]
        /\ strategies = DefaultStrategies
        /\ registrations = <<>>
        /\ init_heap = <<>>
        /\ pre = <<>>
        /\ calls = <<>>
        /\ ticks = 0
        /\ last = "init"
        /\ raised = "none"
        /\ init_items = <<>>
        /\ appended = {}
        /\ processed = {}
        /\ q_in = q
        /\ q_out = <<>>

Clamp ==
    /\ Len(q_out) < MaxClamps
    /\ q_out' = Append(q_out, clamp_quality(IF q_out = <<>> THEN q_in
                                            ELSE q_out[Len(q_out)]))
    /\ last' = "clamp"
    /\ UNCHANGED <<heap, lists, self_items, strategies, registrations, init_heap, pre,
                    calls, ticks, raised, init_items, appended, processed, q_in>>

NextClamp == Clamp

SpecClamp == InitClamp /\ [][NextClamp]_vars

---------------------------------------------------------------------------
(* Vocabulary of the properties *)
Objs == DOMAIN heap
Occ(id) == Cardinality({i \in DOMAIN items : items[i] = id})
Resolved(id) == get_updater(strategies, heap[id].name)
Rebound(name) == \E k \in DOMAIN registrations : registrations[k].name = name
NonLegendary == {"NormalItemUpdater", "AgedBrieUpdater", "BackstagePassUpdater"}
InRange(q) == q \in 0..50
\* the log entry of the call op made for the object id (it occurs once)
CallOf(id, op) == CHOOSE c \in {calls[k] : k \in DOMAIN calls} : c.obj = id /\ c.op = op
ProbeNames == ItemNames \cup {"AGED BRIE", "Aged", "Aged Brie (vintage)", "Aged Brie ", " Aged Brie", "Backstage passes",
                              "backstage passes to a tafkal80etc concert",
                              "Sulfuras", "Sulfuras, Hand of Ragnaros!", "Conjured Mana Cake"}

\* C1: an item that resolves to the Generic, Improving or Backstage-style
\* strategy and was constructed with quality in 0..50 has quality in 0..50
\* after any number of ticks, whatever its daysToSell.
C1_QualityWithinBounds ==
    \A id \in Objs :
        (Resolved(id) \in NonLegendary /\ InRange(init_heap[id].quality))
            => heap[id].quality >= 0 /\ heap[id].quality <= 50

C1_Witness ==
    /\ last = "tick" /\ ticks >= 2
    /\ \E id \in Objs :
          /\ Occ(id) = 1 /\ Resolved(id) = "BackstagePassUpdater"
          /\ InRange(init_heap[id].quality)
          /\ pre[id].sell_in < 0 /\ pre[id].quality = 0
          /\ heap[id].quality = 0
    /\ \E id \in Objs :
          /\ Resolved(id) \in NonLegendary /\ InRange(init_heap[id].quality)
          /\ init_heap[id].quality < 50 /\ heap[id].quality = 50

\* C2: an item named exactly "Sulfuras, Hand of Ragnaros", while that name
\* keeps its Legendary binding, has the quality and daysToSell it was
\* constructed with after any number of ticks, out-of-range values included.
C2_LegendaryUnchanged ==
    \A id \in Objs :
        (heap[id].name = "Sulfuras, Hand of Ragnaros"
            /\ ~Rebound("Sulfuras, Hand of Ragnaros"))
            => /\ heap[id].quality = init_heap[id].quality
               /\ heap[id].sell_in = init_heap[id].sell_in

C2_Witness ==
    /\ last = "tick" /\ ticks >= 2
    /\ \E id \in Objs :
          /\ Occ(id) >= 1
          /\ heap[id].name = "Sulfuras, Hand of Ragnaros"
          /\ ~Rebound("Sulfuras, Hand of Ragnaros")
          /\ init_heap[id].quality = 80 /\ init_heap[id].sell_in < 0
          /\ heap[id] = init_heap[id]

\* C3: an item that occurs once in the collection and resolves to a
\* non-Legendary strategy loses exactly 1 daysToSell in each tick, also at
\* zero and below; with its binding never re-registered, after n ticks its
\* daysToSell is the initial value minus n.
C3_SellInDecrement ==
    \A id \in Objs :
        (Occ(id) = 1 /\ Resolved(id) \in NonLegendary)
            => /\ last = "tick" => heap[id].sell_in = pre[id].sell_in - 1
               /\ ~Rebound(heap[id].name)
                    => heap[id].sell_in = init_heap[id].sell_in - ticks

C3_Witness ==
    /\ last = "tick" /\ ticks >= 2
    /\ \E id \in Objs :
          /\ Occ(id) = 1 /\ Resolved(id) \in NonLegendary
          /\ ~Rebound(heap[id].name)
          /\ init_heap[id].sell_in <= 0
          /\ pre[id].sell_in < 0
          /\ heap[id].sell_in = init_heap[id].sell_in - ticks

\* C4: one tick of a Generic item (occurring once) with pre-tick quality q in
\* 0..50 and pre-tick daysToSell d gives quality max(0, q-1) when d >= 1 and
\* max(0, q-2) when d <= 0, and daysToSell d-1.
C4_GenericTick ==
    last = "tick" =>
        \A id \in Objs :
            (Occ(id) = 1 /\ Resolved(id) = "NormalItemUpdater" /\ InRange(pre[id].quality))
                => LET q == pre[id].quality
                       d == pre[id].sell_in
                   IN  /\ d >= 1 => heap[id].quality = (IF q - 1 < 0 THEN 0 ELSE q - 1)
                       /\ d <= 0 => heap[id].quality = (IF q - 2 < 0 THEN 0 ELSE q - 2)
                       /\ heap[id].sell_in = d - 1

C4_Witness ==
    /\ last = "tick"
    /\ \E id \in Objs :
          /\ Occ(id) = 1 /\ heap[id].name \notin DOMAIN strategies
          /\ pre[id].sell_in = 0 /\ pre[id].quality = 1 /\ heap[id].quality = 0
    /\ \E id \in Objs :
          /\ Occ(id) = 1 /\ heap[id].name \notin DOMAIN strategies
          /\ pre[id].sell_in >= 1 /\ pre[id].quality = 49 /\ heap[id].quality = 48

\* C5: one tick of an "Aged Brie" item (occurring once, Improving binding)
\* with pre-tick quality q in 0..50 and pre-tick daysToSell d gives quality
\* min(50, q+1) when d >= 1 and min(50, q+2) when d <= 0, and daysToSell d-1.
C5_AgedBrieTick ==
    last = "tick" =>
        \A id \in Objs :
            (Occ(id) = 1 /\ heap[id].name = "Aged Brie"
                /\ Resolved(id) = "AgedBrieUpdater" /\ InRange(pre[id].quality))
                => LET q == pre[id].quality
                       d == pre[id].sell_in
                   IN  /\ d >= 1 => heap[id].quality = (IF q + 1 > 50 THEN 50 ELSE q + 1)
                       /\ d <= 0 => heap[id].quality = (IF q + 2 > 50 THEN 50 ELSE q + 2)
                       /\ heap[id].sell_in = d - 1

C5_Witness ==
    /\ last = "tick"
    /\ \E id \in Objs :
          /\ Occ(id) = 1 /\ heap[id].name = "Aged Brie"
          /\ Resolved(id) = "AgedBrieUpdater"
          /\ pre[id].sell_in <= 0 /\ pre[id].quality = 49 /\ heap[id].quality = 50

\* C6: one tick of a Backstage-style item (occurring once) with pre-tick
\* daysToSell d >= 1 and pre-tick quality q in 0..50 gives quality
\* min(50, q+b), b = 3 if d < 6, 2 if 6 <= d < 11, 1 if d >= 11, and
\* daysToSell d-1.
C6_BackstageTick ==
    last = "tick" =>
        \A id \in Objs :
            (Occ(id) = 1 /\ Resolved(id) = "BackstagePassUpdater"
                /\ pre[id].sell_in >= 1 /\ InRange(pre[id].quality))
                => LET q == pre[id].quality
                       d == pre[id].sell_in
                       b == IF d < 6 THEN 3 ELSE IF d < 11 THEN 2 ELSE 1
                   IN  /\ heap[id].quality = (IF q + b > 50 THEN 50 ELSE q + b)
                       /\ heap[id].sell_in = d - 1

C6_Witness ==
    /\ last = "tick"
    /\ \E id \in Objs :
          /\ Occ(id) = 1 /\ Resolved(id) = "BackstagePassUpdater"
          /\ heap[id].name = "Backstage passes to a TAFKAL80ETC concert"
          /\ pre[id].sell_in = 6 /\ pre[id].quality = 25
          /\ heap[id].quality = 27 /\ heap[id].sell_in = 5

\* C7: one tick of a Backstage-style item (occurring once) with pre-tick
\* daysToSell <= 0 leaves quality exactly 0 whatever the pre-tick quality and
\* daysToSell one lower; with pre-tick daysToSell >= 1 the quality the tick
\* leaves is the one updateQuality produced (no reset).
C7_BackstageExpiry ==
    last = "tick" =>
        \A id \in Objs :
            (Occ(id) = 1 /\ Resolved(id) = "BackstagePassUpdater")
                => /\ pre[id].sell_in <= 0 => heap[id].quality = 0
                   /\ heap[id].sell_in = pre[id].sell_in - 1
                   /\ pre[id].sell_in >= 1 =>
                        heap[id].quality = CallOf(id, "update_quality").item.quality
                   /\ (pre[id].sell_in >= 1 /\ pre[id].quality >= 0) => heap[id].quality > 0

C7_Witness ==
    /\ last = "tick"
    /\ \E id \in Objs :
          /\ Occ(id) = 1 /\ Resolved(id) = "BackstagePassUpdater"
          /\ pre[id].sell_in = 0 /\ pre[id].quality = 50
          /\ heap[id].quality = 0 /\ heap[id].sell_in = -1

\* C8: a tick makes, for the items in collection order, updateQuality and then
\* updateDaysToSell of the resolved strategy, both for entry i before any for
\* entry i+1, exactly one of each per entry; updateQuality sees the daysToSell
\* the entry had before its decrement.
C8_CallOrder ==
    last = "tick" =>
        /\ Len(calls) = 2 * Len(items)
        /\ \A i \in DOMAIN items :
              /\ calls[2 * i - 1].idx = i /\ calls[2 * i - 1].obj = items[i]
              /\ calls[2 * i - 1].op = "update_quality"
              /\ calls[2 * i].idx = i /\ calls[2 * i].obj = items[i]
              /\ calls[2 * i].op = "update_sell_in"
              /\ calls[2 * i - 1].updater = Resolved(items[i])
              /\ calls[2 * i].updater = Resolved(items[i])
              /\ Occ(items[i]) = 1 =>
                    calls[2 * i - 1].item.sell_in = pre[items[i]].sell_in

C8_Witness ==
    /\ last = "tick"
    /\ Len(items) = 2 /\ items[1] # items[2]
    /\ Len(calls) = 4
    /\ calls[1].item.quality # pre[items[1]].quality
    /\ calls[2].item.sell_in = pre[items[1]].sell_in - 1
    /\ calls[3].item.quality # pre[items[2]].quality
    /\ calls[4].item.sell_in = pre[items[2]].sell_in - 1

\* C9: with the default registry a name resolves to the Improving strategy
\* only if it is exactly "Aged Brie", to the Backstage-style strategy only if
\* exactly "Backstage passes to a TAFKAL80ETC concert", to the Legendary
\* strategy only if exactly "Sulfuras, Hand of Ragnaros", and to the Generic
\* strategy otherwise; a tick uses that strategy for every item.
C9_Expected(n) ==
    IF n = "Aged Brie" THEN "AgedBrieUpdater"
    ELSE IF n = "Backstage passes to a TAFKAL80ETC concert" THEN "BackstagePassUpdater"
    ELSE IF n = "Sulfuras, Hand of Ragnaros" THEN "SulfurasUpdater"
    ELSE "NormalItemUpdater"

C9_DefaultResolve ==
    registrations = <<>> =>
        /\ \A n \in ProbeNames : get_updater(strategies, n) = C9_Expected(n)
        /\ \A k \in DOMAIN calls : calls[k].updater = C9_Expected(heap[calls[k].obj].name)

C9_Witness ==
    /\ last = "tick" /\ registrations = <<>>
    /\ \E id \in Objs :
          /\ Occ(id) = 1 /\ heap[id].name = "aged brie"
          /\ pre[id].quality = 25 /\ pre[id].sell_in = 5
          /\ heap[id].quality = 24
          /\ CallOf(id, "update_quality").updater = "NormalItemUpdater"

\* C10: a registerStrategy(name, s) for a name not bound before makes
\* resolve(name) return s for as long as the name is not registered again,
\* leaves the resolution of every other name as it was, and the next ticks
\* update items of that name with s; no binding is ever removed.
C10_LatestFor(name) ==
    LET ks == {k \in DOMAIN registrations : registrations[k].name = name}
    IN  registrations[CHOOSE k \in ks : \A j \in ks : j <= k]

C10_RegisterNewName ==
    /\ \A k \in DOMAIN registrations :
          LET r == registrations[k]
          IN  /\ r.name \in DOMAIN strategies
              /\ (r.name \notin DOMAIN r.before /\ C10_LatestFor(r.name) = r)
                    => /\ get_updater(strategies, r.name) = r.updater
                       /\ last = "tick" =>
                            \A c \in DOMAIN calls :
                                heap[calls[c].obj].name = r.name
                                    => calls[c].updater = r.updater
    /\ {"Aged Brie", "Backstage passes to a TAFKAL80ETC concert",
        "Sulfuras, Hand of Ragnaros"} \subseteq DOMAIN strategies
    /\ last = "register" =>
          LET r == registrations[Len(registrations)]
          IN  \A n \in ProbeNames \ {r.name} :
                  get_updater(strategies, n) = get_updater(r.before, n)

C10_Witness ==
    /\ last = "tick"
    /\ \E k \in DOMAIN registrations :
          /\ registrations[k].name = "Normal Item"
          /\ "Normal Item" \notin DOMAIN registrations[k].before
          /\ registrations[k].updater = "AgedBrieUpdater"
    /\ \E id \in Objs :
          /\ Occ(id) = 1 /\ heap[id].name = "Normal Item"
          /\ heap[id].quality = pre[id].quality + 1
          /\ CallOf(id, "update_quality").updater = "AgedBrieUpdater"

\* C11: a tick of an inventory constructed with an empty collection raises
\* nothing and changes nothing; the collection is still empty after any number
\* of ticks.
C11_EmptyCollection ==
    init_items = <<>> =>
        /\ raised = "none"
        /\ items = <<>>
        /\ heap = init_heap
        /\ calls = <<>>

C11_Witness ==
    /\ init_items = <<>> /\ last = "tick" /\ ticks >= 2
    /\ raised = "none" /\ items = <<>>

\* C12: no tick ends with an exception, whatever the names (registered or
\* not), qualities (negative or above 50 included) and daysToSell (negative
\* included) of the items, and every entry of the collection is updated.
C12_NeverRaises ==
    /\ raised = "none"
    /\ last = "tick" =>
          /\ \A i \in DOMAIN items :
                \E k \in DOMAIN calls : calls[k].idx = i /\ calls[k].op = "update_sell_in"
          /\ \A id \in Objs :
                (Occ(id) >= 1 /\ Resolved(id) \in NonLegendary)
                    => heap[id].sell_in < pre[id].sell_in

C12_Witness ==
    /\ last = "tick" /\ raised = "none"
    /\ \E id \in Objs :
          /\ Occ(id) = 1 /\ heap[id].name = ""
          /\ pre[id].quality = 80 /\ pre[id].sell_in < 0
          /\ heap[id].sell_in = pre[id].sell_in - 1
          /\ heap[id].quality = 49

\* C13: in a collection of distinct items, what a tick leaves of an item is
\* what a tick of the collection holding that item alone would leave,
\* whatever the other items and the item's position.
C13_Alone(id) ==
    GildedRose_update_quality(strategies, <<1>>, <<pre[id]>>).heap[1]

C13_Independent ==
    last = "tick" =>
        \A id \in Objs : Occ(id) = 1 => heap[id] = C13_Alone(id)

C13_Witness ==
    /\ last = "tick" /\ Len(items) = 2 /\ items[1] # items[2]
    /\ heap[items[1]].name # heap[items[2]].name
    /\ Resolved(items[1]) # Resolved(items[2])
    /\ heap[items[1]] # pre[items[1]]
    /\ heap[items[2]] # pre[items[2]]
    /\ heap[items[2]] = C13_Alone(items[2])

\* C14: ticks change only quality and daysToSell: the collection keeps its
\* length, its items and their order, and every item keeps its name.
C14_Frame ==
    /\ items = init_items
    /\ DOMAIN heap = DOMAIN init_heap
    /\ \A id \in Objs : heap[id].name = init_heap[id].name

C14_Witness ==
    /\ last = "tick" /\ ticks >= 2 /\ Len(items) = 2 /\ items[1] # items[2]
    /\ items = init_items
    /\ \E id \in Objs : heap[id].quality = 0 /\ init_heap[id].quality > 0
    /\ \A id \in Objs : heap[id].name = init_heap[id].name

\* C15: for Generic, Improving and Backstage-style items (occurring once) the
\* past-due adjustment is applied in a tick exactly when the pre-tick
\* daysToSell is <= 0, i.e. when the decremented value is below 0: not in
\* the tick from 1 to 0, but in the tick from 0 to -1.
C15_Adjusted(updater, q) ==
    IF updater = "NormalItemUpdater" THEN (IF q - 1 < 0 THEN 0 ELSE IF q - 1 > 50 THEN 50 ELSE q - 1)
    ELSE IF updater = "AgedBrieUpdater" THEN (IF q + 1 > 50 THEN 50 ELSE IF q + 1 < 0 THEN 0 ELSE q + 1)
    ELSE 0

C15_PastDueThreshold ==
    last = "tick" =>
        \A id \in Objs :
            (Occ(id) = 1 /\ Resolved(id) \in NonLegendary)
                => LET a == CallOf(id, "update_quality").item.quality
                   IN  /\ heap[id].sell_in >= 0 => heap[id].quality = a
                       /\ heap[id].sell_in < 0
                            => heap[id].quality = C15_Adjusted(Resolved(id), a)
                       /\ (heap[id].sell_in < 0) <=> (pre[id].sell_in <= 0)

C15_Witness ==
    /\ last = "tick" /\ ticks >= 2
    /\ \E id \in Objs :
          /\ Occ(id) = 1 /\ Resolved(id) = "NormalItemUpdater"
          /\ init_heap[id].sell_in = 1 /\ init_heap[id].quality = 25
          /\ ~Rebound(heap[id].name)
          /\ pre[id].sell_in = 0 /\ pre[id].quality = 24
          /\ heap[id].sell_in = -1 /\ heap[id].quality = 22

\* C16: what a tick leaves of an item depends only on its name, quality and
\* daysToSell before the tick: any two _update_single_item calls that found
\* equal name, quality and daysToSell left equal quality and daysToSell,
\* whichever ticks they belong to, however many ticks each item had been
\* through, and whichever updater object processed them.
C16_Age(e) ==
    Cardinality({x \in processed :
                    /\ x.obj = e.obj
                    /\ (x.tick < e.tick \/ (x.tick = e.tick /\ x.idx < e.idx))})

C16_PureFunction ==
    \A a, b \in processed :
        a.before = b.before
            => /\ a.after.quality = b.after.quality
               /\ a.after.sell_in = b.after.sell_in
               /\ a.after.name = b.after.name

C16_Witness ==
    \E a, b \in processed :
        /\ a.obj # b.obj
        /\ a.obj \notin appended /\ b.obj \in appended
        /\ C16_Age(a) = 1 /\ C16_Age(b) = 0
        /\ a.instance # b.instance
        /\ a.before = [name |-> "Normal Item", sell_in |-> 1, quality |-> 48]
        /\ b.before = a.before
        /\ a.after = [name |-> "Normal Item", sell_in |-> 0, quality |-> 47]
        /\ b.after = a.after
        /\ init_heap[a.obj].quality = 49 /\ init_heap[a.obj].sell_in = 2

\* C17: a tick ends after processing each entry of the collection exactly
\* once: every entry gets one updateQuality and one updateDaysToSell, nothing
\* else is processed, and a distinct object is processed once.
C17_CallsAt(i, op) == {k \in DOMAIN calls : calls[k].idx = i /\ calls[k].op = op}

C17_EachOnce ==
    last = "tick" =>
        /\ raised = "none"
        /\ \A k \in DOMAIN calls : calls[k].idx \in DOMAIN items
        /\ \A i \in DOMAIN items :
              /\ Cardinality(C17_CallsAt(i, "update_quality")) = 1
              /\ Cardinality(C17_CallsAt(i, "update_sell_in")) = 1
        /\ \A id \in Objs :
              Cardinality({k \in DOMAIN calls : calls[k].obj = id}) = 2 * Occ(id)

C17_Witness ==
    /\ last = "tick" /\ raised = "none"
    /\ Len(items) = 2 /\ items[1] # items[2]
    /\ \A i \in DOMAIN items :
          /\ Cardinality(C17_CallsAt(i, "update_quality")) = 1
          /\ Cardinality(C17_CallsAt(i, "update_sell_in")) = 1
    /\ \A id \in Objs : heap[id].sell_in = pre[id].sell_in - 1

\* C18: for a Backstage-style item (occurring once) with pre-tick daysToSell
\* <= 0 and quality q in 0..50, the tick first raises quality to min(50, q+3)
\* in updateQuality and only then, in updateDaysToSell, decrements daysToSell
\* and sets quality to 0.
C18_IndexOf(id, op) == CHOOSE k \in DOMAIN calls : calls[k].obj = id /\ calls[k].op = op

C18_BonusThenReset ==
    last = "tick" =>
        \A id \in Objs :
            (Occ(id) = 1 /\ Resolved(id) = "BackstagePassUpdater"
                /\ pre[id].sell_in <= 0 /\ InRange(pre[id].quality))
                => LET q == pre[id].quality
                       d == pre[id].sell_in
                       uq == calls[C18_IndexOf(id, "update_quality")].item
                       us == calls[C18_IndexOf(id, "update_sell_in")].item
                   IN  /\ C18_IndexOf(id, "update_quality") < C18_IndexOf(id, "update_sell_in")
                       /\ uq.quality = (IF q + 3 > 50 THEN 50 ELSE q + 3)
                       /\ uq.sell_in = d
                       /\ us.quality = 0
                       /\ us.sell_in = d - 1
                       /\ heap[id] = us

C18_Witness ==
    /\ last = "tick"
    /\ \E id \in Objs :
          /\ Occ(id) = 1 /\ Resolved(id) = "BackstagePassUpdater"
          /\ pre[id].sell_in = 0 /\ pre[id].quality = 25
          /\ CallOf(id, "update_quality").item.quality = 28
          /\ heap[id].quality = 0 /\ heap[id].sell_in = -1

\* C19: a Generic item (occurring once, binding never re-registered) with
\* initial quality q in 0..50 and initial daysToSell d has, after n ticks,
\* quality max(0, q - n - max(0, n - max(d, 0))) and daysToSell d - n.
C19_Pos(x) == IF x > 0 THEN x ELSE 0

C19_GenericAfterN ==
    \A id \in Objs :
        (Occ(id) = 1 /\ Resolved(id) = "NormalItemUpdater"
            /\ ~Rebound(heap[id].name) /\ InRange(init_heap[id].quality))
            => LET q == init_heap[id].quality
                   d == init_heap[id].sell_in
                   n == ticks
               IN  /\ heap[id].quality = C19_Pos(q - n - C19_Pos(n - C19_Pos(d)))
                   /\ heap[id].sell_in = d - n

C19_Witness ==
    /\ last = "tick" /\ ticks >= 3
    /\ \E id \in Objs :
          /\ Occ(id) = 1 /\ heap[id].name \notin DOMAIN strategies
          /\ init_heap[id].sell_in = 1 /\ init_heap[id].quality = 25
          /\ heap[id].quality = 25 - ticks - (ticks - 1)
          /\ heap[id].sell_in = 1 - ticks

\* C20: an "Aged Brie" item (occurring once, Improving binding never
\* re-registered) with initial quality q in 0..50 and initial daysToSell d
\* has, after n ticks, quality min(50, q + n + max(0, n - max(d, 0))) and
\* daysToSell d - n.
C20_Cap(x) == IF x < 50 THEN x ELSE 50

C20_AgedBrieAfterN ==
    \A id \in Objs :
        (Occ(id) = 1 /\ heap[id].name = "Aged Brie"
            /\ Resolved(id) = "AgedBrieUpdater"
            /\ ~Rebound("Aged Brie") /\ InRange(init_heap[id].quality))
            => LET q == init_heap[id].quality
                   d == init_heap[id].sell_in
                   n == ticks
                   late == IF d > 0 THEN (IF n - d > 0 THEN n - d ELSE 0) ELSE n
               IN  /\ heap[id].quality = C20_Cap(q + n + late)
                   /\ heap[id].sell_in = d - n

C20_Witness ==
    /\ last = "tick" /\ ticks >= 3
    /\ \E id \in Objs :
          /\ Occ(id) = 1 /\ heap[id].name = "Aged Brie"
          /\ Resolved(id) = "AgedBrieUpdater"
          /\ init_heap[id].sell_in = 1 /\ init_heap[id].quality = 25
          /\ heap[id].quality = 25 + ticks + (ticks - 1)
          /\ heap[id].sell_in = 1 - ticks

\* C21: a backstage pass constructed with quality q in 0..50 and daysToSell d
\* has, after n ticks with 0 <= n <= d, quality min(50, q + the sum over
\* k = 0..n-1 of bonus(d - k)), where bonus(x) is 3 for x < 6, 2 for
\* 6 <= x < 11 and 1 otherwise, and daysToSell d - n; from (d, q) = (15, 20)
\* the quality is 25 at daysToSell 10, 35 at 5 and 38 at 4.
C21_Bonus(x) == IF x < 6 THEN 3 ELSE IF x < 11 THEN 2 ELSE 1

RECURSIVE C21_Sum(_, _)
C21_Sum(d, n) == IF n = 0 THEN 0 ELSE C21_Bonus(d - (n - 1)) + C21_Sum(d, n - 1)

C21_BackstageBeforeConcert ==
    \A id \in Objs :
        (Occ(id) = 1
            /\ heap[id].name = "Backstage passes to a TAFKAL80ETC concert"
            /\ Resolved(id) = "BackstagePassUpdater"
            /\ ~Rebound("Backstage passes to a TAFKAL80ETC concert")
            /\ InRange(init_heap[id].quality)
            /\ ticks <= init_heap[id].sell_in)
            => LET q == init_heap[id].quality
                   d == init_heap[id].sell_in
                   total == q + C21_Sum(d, ticks)
               IN  /\ heap[id].quality = (IF total < 50 THEN total ELSE 50)
                   /\ heap[id].sell_in = d - ticks
                   /\ (d = 15 /\ q = 20) =>
                         /\ heap[id].sell_in = 10 => heap[id].quality = 25
                         /\ heap[id].sell_in = 5 => heap[id].quality = 35
                         /\ heap[id].sell_in = 4 => heap[id].quality = 38

C21_Witness ==
    /\ last = "tick" /\ ticks = 11
    /\ \E id \in Objs :
          /\ Occ(id) = 1
          /\ heap[id].name = "Backstage passes to a TAFKAL80ETC concert"
          /\ Resolved(id) = "BackstagePassUpdater"
          /\ init_heap[id].sell_in = 15 /\ init_heap[id].quality = 20
          /\ pre[id].quality = 35 /\ pre[id].sell_in = 5
          /\ heap[id].quality = 38 /\ heap[id].sell_in = 4

\* C22: a backstage pass constructed with daysToSell d and any quality has
\* quality 0 after tick number max(d, 0) + 1 and after every later tick; each
\* later tick still adds 3 (clamped) before the quality is wiped again.
C22_FirstWipe(d) == (IF d > 0 THEN d ELSE 0) + 1

C22_BackstageAfterConcert ==
    \A id \in Objs :
        (Occ(id) = 1
            /\ heap[id].name = "Backstage passes to a TAFKAL80ETC concert"
            /\ Resolved(id) = "BackstagePassUpdater"
            /\ ~Rebound("Backstage passes to a TAFKAL80ETC concert")
            /\ ticks >= C22_FirstWipe(init_heap[id].sell_in))
            => /\ heap[id].quality = 0
               /\ (last = "tick" /\ ticks > C22_FirstWipe(init_heap[id].sell_in))
                     => /\ pre[id].quality = 0
                        /\ CallOf(id, "update_quality").item.quality = 3
                        /\ CallOf(id, "update_sell_in").item.quality = 0

C22_Witness ==
    /\ last = "tick" /\ ticks = 3
    /\ \E id \in Objs :
          /\ Occ(id) = 1
          /\ heap[id].name = "Backstage passes to a TAFKAL80ETC concert"
          /\ Resolved(id) = "BackstagePassUpdater"
          /\ init_heap[id].sell_in = 1 /\ init_heap[id].quality = 80
          /\ pre[id].quality = 0
          /\ CallOf(id, "update_quality").item.quality = 3
          /\ heap[id].quality = 0 /\ heap[id].sell_in = -2

\* C23: a Generic item constructed with quality q in 0..50 has quality 0
\* after at most q ticks; from then on the quality stays 0 while daysToSell
\* keeps going down by one per tick.
C23_GenericReachesZero ==
    \A id \in Objs :
        (Occ(id) = 1 /\ Resolved(id) = "NormalItemUpdater"
            /\ ~Rebound(heap[id].name) /\ InRange(init_heap[id].quality))
            => /\ ticks >= init_heap[id].quality => heap[id].quality = 0
               /\ (last = "tick" /\ pre[id].quality = 0)
                     => /\ heap[id].quality = 0
                        /\ heap[id].sell_in = pre[id].sell_in - 1

C23_Witness ==
    /\ last = "tick" /\ ticks = 50
    /\ \E id \in Objs :
          /\ Occ(id) = 1 /\ Resolved(id) = "NormalItemUpdater"
          /\ init_heap[id].quality = 50 /\ init_heap[id].sell_in = 60
          /\ pre[id].quality = 1
          /\ heap[id].quality = 0 /\ heap[id].sell_in = 10

\* C24: an Aged Brie constructed with quality q in 0..50 has quality 50
\* after at most 50 - q ticks; from then on every tick leaves the quality at
\* 50 while daysToSell keeps going down by one per tick.
C24_BrieReachesMaximum ==
    \A id \in Objs :
        (Occ(id) = 1 /\ heap[id].name = "Aged Brie"
            /\ Resolved(id) = "AgedBrieUpdater"
            /\ ~Rebound("Aged Brie") /\ InRange(init_heap[id].quality))
            => /\ ticks >= 50 - init_heap[id].quality => heap[id].quality = 50
               /\ (last = "tick" /\ pre[id].quality = 50)
                     => /\ heap[id].quality = 50
                        /\ heap[id].sell_in = pre[id].sell_in - 1
               /\ heap[id].sell_in = init_heap[id].sell_in - ticks

C24_Witness ==
    /\ last = "tick" /\ ticks = 50
    /\ \E id \in Objs :
          /\ Occ(id) = 1 /\ heap[id].name = "Aged Brie"
          /\ Resolved(id) = "AgedBrieUpdater"
          /\ init_heap[id].quality = 0 /\ init_heap[id].sell_in = 15
          /\ pre[id].quality = 50 /\ pre[id].sell_in = -34
          /\ heap[id].quality = 50 /\ heap[id].sell_in = -35

\* C25: for a Generic item constructed with quality in 0..50, no tick
\* raises the quality and no tick lowers it by more than 2.
C25_GenericStep ==
    last = "tick" =>
        \A id \in Objs :
            (Occ(id) = 1 /\ Resolved(id) = "NormalItemUpdater"
                /\ InRange(init_heap[id].quality))
                => /\ heap[id].quality <= pre[id].quality
                   /\ pre[id].quality - heap[id].quality <= 2

C25_Witness ==
    /\ last = "tick"
    /\ \E id \in Objs :
          /\ Occ(id) = 1 /\ Resolved(id) = "NormalItemUpdater"
          /\ InRange(init_heap[id].quality)
          /\ heap[id].sell_in < 0
          /\ pre[id].quality = 25 /\ heap[id].quality = 23

\* C26: for an Aged Brie constructed with quality in 0..50, no tick
\* lowers the quality and no tick raises it by more than 2.
C26_BrieStep ==
    last = "tick" =>
        \A id \in Objs :
            (Occ(id) = 1 /\ Resolved(id) = "AgedBrieUpdater"
                /\ InRange(init_heap[id].quality))
                => /\ heap[id].quality >= pre[id].quality
                   /\ heap[id].quality - pre[id].quality <= 2

C26_Witness ==
    /\ last = "tick"
    /\ \E id \in Objs :
          /\ Occ(id) = 1 /\ heap[id].name = "Aged Brie"
          /\ Resolved(id) = "AgedBrieUpdater"
          /\ InRange(init_heap[id].quality)
          /\ heap[id].sell_in < 0
          /\ pre[id].quality = 25 /\ heap[id].quality = 27

\* C27: an item that is never Legendary and was constructed with quality
\* outside 0..50 is accepted, and has quality in 0..50 after the first tick
\* and after every later one: the value is clamped, neither rejected nor
\* kept, so the first tick can move it by more than a day's change.
C27_EverLegendary(name) ==
    \/ name = "Sulfuras, Hand of Ragnaros"
    \/ \E k \in DOMAIN registrations :
          registrations[k].name = name /\ registrations[k].updater = "SulfurasUpdater"

C27_OutOfRangeClamped ==
    \A id \in Objs :
        (Resolved(id) \in NonLegendary /\ ~C27_EverLegendary(heap[id].name)
            /\ ~InRange(init_heap[id].quality) /\ ticks >= 1)
            => /\ raised = "none"
               /\ InRange(heap[id].quality)
               /\ heap[id].quality # init_heap[id].quality

C27_Witness ==
    /\ last = "tick" /\ ticks = 1 /\ raised = "none"
    /\ \E id \in Objs :
          /\ Occ(id) = 1 /\ Resolved(id) = "NormalItemUpdater"
          /\ init_heap[id].quality = 80 /\ init_heap[id].sell_in > 0
          /\ pre[id].quality = 80
          /\ CallOf(id, "update_quality").item.quality = 50
          /\ heap[id].quality = 50

\* C28: an Item object that occurs k times in the list gets the two
\* strategy calls k times in one tick; with a strategy other than the
\* Legendary one its daysToSell goes down by k.
C28_CallsFor(id, op) == {c \in DOMAIN calls : calls[c].obj = id /\ calls[c].op = op}

C28_AliasedItem ==
    (last = "tick" /\ raised = "none") =>
        \A id \in Objs :
            /\ Cardinality(C28_CallsFor(id, "update_quality")) = Occ(id)
            /\ Cardinality(C28_CallsFor(id, "update_sell_in")) = Occ(id)
            /\ Resolved(id) \in NonLegendary
                  => heap[id].sell_in = pre[id].sell_in - Occ(id)

C28_Witness ==
    /\ last = "tick" /\ raised = "none"
    /\ \E id \in Objs :
          /\ Occ(id) = 2 /\ Resolved(id) = "NormalItemUpdater"
          /\ Cardinality(C28_CallsFor(id, "update_sell_in")) = 2
          /\ pre[id].sell_in = 11 /\ heap[id].sell_in = 9
          /\ pre[id].quality = 49 /\ heap[id].quality = 47

\* C29: register_strategy with a name that is already bound, a built-in
\* name included, replaces that binding and adds none; the old binding is
\* gone, and from the next resolve on the items of that name are updated by
\* the new strategy, so an item with the Legendary name can start to change.
C29_RegisterBoundName ==
    /\ \A k \in DOMAIN registrations :
          LET r == registrations[k]
          IN  (r.name \in DOMAIN r.before /\ C10_LatestFor(r.name) = r)
                  => /\ strategies[r.name] = r.updater
                     /\ get_updater(strategies, r.name) = r.updater
                     /\ last = "tick" =>
                          \A c \in DOMAIN calls :
                              heap[calls[c].obj].name = r.name
                                  => calls[c].updater = r.updater
    /\ last = "register" =>
          LET r == registrations[Len(registrations)]
          IN  r.name \in DOMAIN r.before
                  => /\ DOMAIN strategies = DOMAIN r.before
                     /\ \A n \in DOMAIN strategies \ {r.name} :
                            strategies[n] = r.before[n]

C29_Witness ==
    /\ last = "tick"
    /\ \E k \in DOMAIN registrations :
          /\ registrations[k].name = "Sulfuras, Hand of Ragnaros"
          /\ registrations[k].before["Sulfuras, Hand of Ragnaros"] = "SulfurasUpdater"
          /\ registrations[k].updater = "NormalItemUpdater"
    /\ \E id \in Objs :
          /\ Occ(id) = 1 /\ heap[id].name = "Sulfuras, Hand of Ragnaros"
          /\ CallOf(id, "update_quality").updater = "NormalItemUpdater"
          /\ init_heap[id].quality = 80 /\ pre[id].quality = 80
          /\ heap[id].quality = 50
          /\ heap[id].sell_in = init_heap[id].sell_in - 1

\* C30: get_updater and update_quality never change the registry, and
\* resolving an unknown name adds no binding: after any ticks the registry
\* is the three default bindings overwritten by the register_strategy calls
\* made so far, in their order, and by nothing else.
RECURSIVE C30_Replay(_)
C30_Replay(n) ==
    IF n = 0
    THEN [x \in {"Aged Brie", "Backstage passes to a TAFKAL80ETC concert",
                 "Sulfuras, Hand of Ragnaros"} |->
            IF x = "Aged Brie" THEN "AgedBrieUpdater"
            ELSE IF x = "Sulfuras, Hand of Ragnaros" THEN "SulfurasUpdater"
            ELSE "BackstagePassUpdater"]
    ELSE LET prev == C30_Replay(n - 1)
             r == registrations[n]
         IN  [x \in (DOMAIN prev) \cup {r.name} |->
                IF x = r.name THEN r.updater ELSE prev[x]]

C30_RegistryOnlyByRegister ==
    /\ strategies = C30_Replay(Len(registrations))
    /\ \A id \in Objs :
          heap[id].name \in DOMAIN strategies
              => \/ heap[id].name \in {"Aged Brie",
                                       "Backstage passes to a TAFKAL80ETC concert",
                                       "Sulfuras, Hand of Ragnaros"}
                 \/ Rebound(heap[id].name)

C30_Witness ==
    /\ last = "tick" /\ ticks >= 2
    /\ Len(registrations) = 1
    /\ registrations[1].name = "Sulfuras, Hand of Ragnaros"
    /\ DOMAIN strategies = {"Aged Brie", "Backstage passes to a TAFKAL80ETC concert",
                            "Sulfuras, Hand of Ragnaros"}
    /\ \E id \in Objs :
          /\ heap[id].name = "aged brie"
          /\ CallOf(id, "update_quality").updater = "NormalItemUpdater"
          /\ heap[id].name \notin DOMAIN strategies

\* C31: GildedRose keeps the caller's list itself, not a copy: its items
\* attribute is the list object passed at construction, update_quality()
\* changes the caller's Item objects in place, and an item the caller appends
\* to that list after construction is updated by the next update_quality().
C31_LastCall(id) ==
    LET ks == {k \in DOMAIN calls : calls[k].obj = id}
    IN  calls[CHOOSE k \in ks : \A j \in ks : j <= k]

C31_KeepsCallersList ==
    /\ self_items = CALLER_LIST
    /\ items = lists[CALLER_LIST]
    /\ (last = "tick" /\ raised = "none") =>
          /\ \A i \in DOMAIN lists[CALLER_LIST] :
                LET id == lists[CALLER_LIST][i]
                IN  /\ \E k \in DOMAIN calls :
                          /\ calls[k].idx = i /\ calls[k].obj = id
                          /\ calls[k].op = "update_sell_in"
                    /\ heap[id] = C31_LastCall(id).item
                    /\ Resolved(id) \in NonLegendary
                          => heap[id].sell_in = pre[id].sell_in - Occ(id)
          /\ \A id \in appended :
                /\ \E i \in DOMAIN lists[CALLER_LIST] : lists[CALLER_LIST][i] = id
                /\ \E k \in DOMAIN calls : calls[k].obj = id

C31_Witness ==
    /\ last = "tick" /\ ticks = 2 /\ raised = "none"
    /\ Len(lists[CALLER_LIST]) = 2 /\ Len(init_items) = 1
    /\ LET old == lists[CALLER_LIST][1]
           new == lists[CALLER_LIST][2]
       IN  /\ new \in appended /\ old \notin appended
           /\ Resolved(old) \in NonLegendary
           /\ heap[old].sell_in = init_heap[old].sell_in - 2
           /\ init_heap[new] = [name |-> "Normal Item", sell_in |-> 1, quality |-> 25]
           /\ heap[new] = [name |-> "Normal Item", sell_in |-> 0, quality |-> 24]
           /\ C31_LastCall(new).idx = 2

\* C32: clamp_quality(q) = max(0, min(q, 50)) for every integer q: 0 for
\* q < 0, q for 0 <= q <= 50 and 50 for q > 50; applying it to its own
\* result gives the same value.
C32_ClampRule ==
    \A k \in DOMAIN q_out :
        /\ q_in < 0 => q_out[k] = 0
        /\ (0 <= q_in /\ q_in <= 50) => q_out[k] = q_in
        /\ q_in > 50 => q_out[k] = 50
        /\ LET low == IF q_in < 50 THEN q_in ELSE 50
           IN  q_out[k] = (IF low > 0 THEN low ELSE 0)
        /\ q_out[k] = q_out[1]

C32_Witness ==
    /\ last = "clamp"
    /\ q_in = 80
    /\ q_out = <<50, 50>>

====
